---- MODULE Spec2Model ----
(***************************************************************************)
(* The Python binding of zpdf (python/zpdf/__init__.py): the Document      *)
(* object, its life cycle (open, close, context manager, finaliser) and    *)
(* its read operations, over the native engine reached through lib.        *)
(* The engine itself is not part of the binding; its functions are         *)
(* modelled from the specification (sections 4.5, 6 and 7).                *)
(***************************************************************************)
EXTENDS Integers, Sequences, FiniteSets, TLC

(***************************************************************************)
(* Bounds of the model.                                                    *)
(***************************************************************************)
\* the largest number of pages of a document
MaxPages == 2
\* the number of generator objects (iterations) alive at once
MaxIters == 2
\* the length at which the log of zpdf_close calls saturates
MaxCloseLog == 3

MaxThreads == 2

(***************************************************************************)
(* Values of the binding.                                                  *)
(***************************************************************************)
\* ffi.NULL, as a pointer value
NULL == 0
\* a live document handle returned by zpdf_open / zpdf_open_memory
HANDLE == 1
\* a non-null output buffer or span array
BUF == 1
\* the page separator of extract_all, U+000C
FF == 12
\* U+FFFD, what decode(errors="replace") puts for an undecodable byte
REPLACEMENT == 65533

\* the page indices the operations are called with: -1, 0 .. MaxPages
PageArgs == -1 .. MaxPages

(***************************************************************************)
(* The PDF behind the source, as the engine sees it.  A page either fails  *)
(* in the interpreter (the engine returns a null pointer, with the length  *)
(* left at zero or set) or has a text in stream order, one in reading      *)
(* order, a Markdown rendering, a span list and a geometry.  Bytes are     *)
(* numbers; 255 is a byte that is never valid UTF-8.                       *)
(***************************************************************************)
Span(x0, y0, x1, y1, text, size) ==
    [x0 |-> x0, y0 |-> y0, x1 |-> x1, y1 |-> y1, text |-> text, font_size |-> size]

\* white space, as bytes and as code points
Whitespace == {9, 10, 11, 12, 13, 32}

\* the text is not empty after trimming white space
NonBlank(text) == \E i \in DOMAIN text : text[i] \notin Whitespace

Least(a, b) == IF a <= b THEN a ELSE b

Greatest(a, b) == IF a <= b THEN b ELSE a

\* The span collector's output for the runs the interpreter placed (section
\* 3, invariants): each box is normalised so that x0 <= x1 and y0 <= y1,
\* and zero-area spans and spans of white space only are dropped.
Normalise(runs) ==
    LET ordered == [i \in DOMAIN runs |->
                       Span(Least(runs[i].x0, runs[i].x1), Least(runs[i].y0, runs[i].y1),
                            Greatest(runs[i].x0, runs[i].x1), Greatest(runs[i].y0, runs[i].y1),
                            runs[i].text, runs[i].font_size)]
    IN  SelectSeq(ordered, LAMBDA s : s.x0 < s.x1 /\ s.y0 < s.y1 /\ NonBlank(s.text))

\* a page, from the runs of glyphs the interpreter placed on it
Page(fail, stream, reading, markdown, runs, rotation) ==
    [fail |-> fail, stream |-> stream, reading |-> reading, markdown |-> markdown,
     spans |-> Normalise(runs), width |-> 612, height |-> 792, rotation |-> rotation]

\* a page with a run drawn right to left and downwards, a run of no area
\* and a run that is a space
GoodPage == Page("none", <<97, 98>>, <<98, 97>>, <<35, 98, 97>>,
                 <<Span(2, 1, 0, 0, <<97, 98>>, 12), Span(1, 1, 1, 2, <<97>>, 12),
                   Span(0, 0, 1, 1, <<32>>, 12)>>, 90)

PageKinds ==
    { Page("null0", <<>>, <<>>, <<>>, <<>>, 0),
      Page("nullerr", <<>>, <<>>, <<>>, <<>>, 0),
      Page("none", <<>>, <<>>, <<>>, <<>>, 0),
      GoodPage,
      Page("none", <<255>>, <<255>>, <<255>>,
           <<Span(1, 1, 2, 2, <<255>>, 10)>>, 0) }

PageSeqs == UNION { [1 .. k -> PageKinds] : k \in 0 .. MaxPages }

Doc(openable, count, pages, allFail) ==
    [openable |-> openable, count |-> count, pages |-> pages, allFail |-> allFail]

\* What the source holds.  openable: whether the engine can open it; count:
\* what zpdf_page_count reports (negative: the engine failed to count);
\* allFail: the outcome of the whole-document extractions.
Docs ==
    { Doc(TRUE, Len(ps), ps, "none") : ps \in PageSeqs }
    \cup { Doc(TRUE, 1, <<GoodPage>>, f) : f \in {"null0", "nullerr"} }
    \cup { Doc(TRUE, -1, <<>>, "none"), Doc(FALSE, -1, <<>>, "none") }

(***************************************************************************)
(* The engine (the lib.zpdf functions), from the specification: section    *)
(* 4.5 (public operations, errors), section 6 (operations surface, owned   *)
(* outputs) and section 7 (error kinds).                                   *)
(***************************************************************************)
Out(ptr, len, data) == [ptr |-> ptr, len |-> len, data |-> data]

RECURSIVE Join(_, _)
Join(texts, sep) ==
    IF Len(texts) = 0 THEN <<>>
    ELSE IF Len(texts) = 1 THEN texts[1]
    ELSE texts[1] \o sep \o Join(Tail(texts), sep)

Perms(S) == { f \in [1 .. Cardinality(S) -> S] : \A x \in S : \E i \in DOMAIN f : f[i] = x }

PageIndices(pdf) == 0 .. (pdf.count - 1)

zpdf_open(pdf) == IF pdf.openable THEN HANDLE ELSE NULL

zpdf_page_count(h, pdf) == IF h = NULL THEN -1 ELSE pdf.count

zpdf_get_page_info(h, n, pdf) ==
    IF h # NULL /\ n \in PageIndices(pdf)
    THEN [rc |-> 0, width |-> pdf.pages[n + 1].width,
          height |-> pdf.pages[n + 1].height, rotation |-> pdf.pages[n + 1].rotation]
    ELSE [rc |-> -1, width |-> 0, height |-> 0, rotation |-> 0]

\* one page's output in one rendering (a field of the page): null with the
\* length untouched for no handle or no such page and for a failure that
\* leaves the length alone, null with a length for a reported failure,
\* else a buffer with its length
PageOut(h, n, pdf, field) ==
    IF h = NULL \/ n \notin PageIndices(pdf) THEN Out(NULL, 0, <<>>)
    ELSE LET p == pdf.pages[n + 1]
         IN  IF p.fail = "null0" THEN Out(NULL, 0, <<>>)
             ELSE IF p.fail = "nullerr" THEN Out(NULL, 1, <<>>)
             ELSE Out(BUF, Len(p[field]), p[field])

zpdf_extract_page(h, n, pdf) == PageOut(h, n, pdf, "stream")

zpdf_extract_page_reading_order(h, n, pdf) == PageOut(h, n, pdf, "reading")

zpdf_extract_page_markdown(h, n, pdf) == PageOut(h, n, pdf, "markdown")

zpdf_extract_bounds(h, n, pdf) == PageOut(h, n, pdf, "spans")

\* a failing page contributes an empty page (section 7, recovery policy)
Contribution(p, field) == IF p.fail = "none" THEN p[field] ELSE <<>>

\* The page workers finish in the order `order`; their outputs are merged
\* in ascending page index (section 4.5, section 5).
Assemble(pdf, order, field) ==
    LET finished == [i \in DOMAIN order |->
                        [page |-> order[i], text |-> Contribution(pdf.pages[order[i] + 1], field)]]
        at(k) == CHOOSE i \in DOMAIN finished : finished[i].page = k
    IN  [k \in 1 .. Len(order) |-> finished[at(k - 1)].text]

AllOut(h, pdf, order, field, sep) ==
    IF h = NULL \/ pdf.allFail = "null0" THEN Out(NULL, 0, <<>>)
    ELSE IF pdf.allFail = "nullerr" THEN Out(NULL, 1, <<>>)
    ELSE LET text == Join(Assemble(pdf, order, field), sep)
         IN  Out(BUF, Len(text), text)

zpdf_extract_all_reading_order(h, pdf, order) == AllOut(h, pdf, order, "reading", <<FF>>)

\* page breaks become a --- line (section 4.6)
zpdf_extract_all_markdown(h, pdf, order) == AllOut(h, pdf, order, "markdown", <<10, 45, 45, 45, 10>>)

(***************************************************************************)
(* The memory of the interpreter: whether it runs out when the binding     *)
(* copies or decodes an output of the engine (fixed over a run).           *)
(***************************************************************************)
VARIABLE oom

(***************************************************************************)
(* The binding.  A method is an operator from the object's fields (closed, *)
(* handle) and its arguments to its outcome: what it returns or raises     *)
(* (kind), the value (num, text, list or info by the method), and the      *)
(* engine calls it made, in order.                                         *)
(***************************************************************************)
Call(fn, ptr, n, len) == [fn |-> fn, ptr |-> ptr, n |-> n, len |-> len]

Ret(kind, num, text, list, info, calls) ==
    [kind |-> kind, num |-> num, text |-> text, list |-> list, info |-> info, calls |-> calls]

Raise(exc, calls) == Ret(exc, 0, <<>>, <<>>, <<>>, calls)

\* bytes.decode("utf-8", errors="replace") on the bytes of the model: an
\* ASCII byte is its code point, a byte that is not valid UTF-8 is U+FFFD
decode(data) == [i \in DOMAIN data |-> IF data[i] < 128 THEN data[i] ELSE REPLACEMENT]

\* ffi.buffer(ptr, len)[:]
buffer(out) == SubSeq(out.data, 1, out.len)

\* a variant of _check_open that never raises
check_open_skipped(c) == "ok"

check_open(c) == IF c THEN "ValueError" ELSE "ok"

\* a variant of page_count that returns whatever the engine reports
page_count_unchecked(c, h, pdf) ==
    IF check_open(c) # "ok" THEN Raise(check_open(c), <<>>)
    ELSE Ret("ok", zpdf_page_count(h, pdf), <<>>, <<>>, <<>>, <<Call("zpdf_page_count", h, 0, 0)>>)

page_count(c, h, pdf) ==
    IF check_open(c) # "ok" THEN Raise(check_open(c), <<>>)
    ELSE LET count == zpdf_page_count(h, pdf)
             calls == <<Call("zpdf_page_count", h, 0, 0)>>
         IN  IF count < 0 THEN Raise("InvalidPdfError", calls)
             ELSE Ret("ok", count, <<>>, <<>>, <<>>, calls)

\* a variant of get_page_info that ignores the engine's return code
get_page_info_unchecked(c, h, pdf, page_num) ==
    IF check_open(c) # "ok" THEN Raise(check_open(c), <<>>)
    ELSE LET r == zpdf_get_page_info(h, page_num, pdf)
         IN  Ret("ok", 0, <<>>, <<>>, <<r.width, r.height, r.rotation>>,
                 <<Call("zpdf_get_page_info", h, page_num, 0)>>)

get_page_info(c, h, pdf, page_num) ==
    IF check_open(c) # "ok" THEN Raise(check_open(c), <<>>)
    ELSE LET r == zpdf_get_page_info(h, page_num, pdf)
             calls == <<Call("zpdf_get_page_info", h, page_num, 0)>>
         IN  IF r.rc # 0 THEN Raise("PageNotFoundError", calls)
             ELSE Ret("ok", 0, <<>>, <<>>, <<r.width, r.height, r.rotation>>, calls)

\* a variant of the index check that tests the upper bound only
page_check_upper_only(c, h, pdf, page_num) ==
    LET pc == page_count(c, h, pdf)
    IN  IF pc.kind # "ok" THEN pc
        ELSE IF page_num >= pc.num THEN Raise("PageNotFoundError", pc.calls)
        ELSE pc

\* the check of the index against page_count that opens extract_page,
\* extract_bounds and extract_page_markdown: "ok", or what is raised
page_check(c, h, pdf, page_num) ==
    IF page_num < 0 THEN Raise("PageNotFoundError", <<>>)
    ELSE LET pc == page_count(c, h, pdf)
         IN  IF pc.kind # "ok" THEN pc
             ELSE IF page_num >= pc.num THEN Raise("PageNotFoundError", pc.calls)
             ELSE pc

\* the copy out of the engine's buffer (ffi.buffer(...)[:], decode, the
\* TextSpan objects) raises MemoryError: when memory is out and there is
\* something to copy
CopyFails(out) == oom /\ out.len > 0

\* a variant of the result handling that takes a zero length for a failure
text_result_empty_is_error(out, calls) ==
    IF out.ptr = NULL \/ out.len = 0 THEN Raise("ExtractionError", calls)
    ELSE IF CopyFails(out)
    THEN Raise("MemoryError", Append(calls, Call("zpdf_free_buffer", out.ptr, 0, out.len)))
    ELSE Ret("ok", 0, decode(buffer(out)), <<>>, <<>>,
             Append(calls, Call("zpdf_free_buffer", out.ptr, 0, out.len)))

\* a variant of the result handling without try/finally: the buffer is
\* freed after the copy, so not when the copy raises
text_result_no_finally(out, calls) ==
    IF out.ptr = NULL
    THEN IF out.len = 0 THEN Ret("ok", 0, <<>>, <<>>, <<>>, calls)
         ELSE Raise("ExtractionError", calls)
    ELSE IF CopyFails(out) THEN Raise("MemoryError", calls)
    ELSE Ret("ok", 0, decode(buffer(out)), <<>>, <<>>,
             Append(calls, Call("zpdf_free_buffer", out.ptr, 0, out.len)))

\* what the text operations do with the engine's (pointer, length): a null
\* pointer is an empty text when the length is zero and an ExtractionError
\* otherwise; a buffer is copied, decoded and freed
text_result(out, calls) ==
    IF out.ptr = NULL
    THEN IF out.len = 0 THEN Ret("ok", 0, <<>>, <<>>, <<>>, calls)
         ELSE Raise("ExtractionError", calls)
    ELSE IF CopyFails(out)
    THEN Raise("MemoryError", Append(calls, Call("zpdf_free_buffer", out.ptr, 0, out.len)))
    ELSE Ret("ok", 0, decode(buffer(out)), <<>>, <<>>,
             Append(calls, Call("zpdf_free_buffer", out.ptr, 0, out.len)))

extract_page(c, h, pdf, page_num, reading_order) ==
    IF check_open(c) # "ok" THEN Raise(check_open(c), <<>>)
    ELSE LET chk == page_check(c, h, pdf, page_num)
         IN  IF chk.kind # "ok" THEN chk
             ELSE IF reading_order
                  THEN text_result(zpdf_extract_page_reading_order(h, page_num, pdf),
                                   Append(chk.calls, Call("zpdf_extract_page_reading_order", h, page_num, 0)))
                  ELSE text_result(zpdf_extract_page(h, page_num, pdf),
                                   Append(chk.calls, Call("zpdf_extract_page", h, page_num, 0)))

\* def extract_all(self): any keyword argument is a TypeError of the call
extract_all(c, h, pdf, order, kwargs) ==
    IF kwargs # {} THEN Raise("TypeError", <<>>)
    ELSE IF check_open(c) # "ok" THEN Raise(check_open(c), <<>>)
    ELSE text_result(zpdf_extract_all_reading_order(h, pdf, order),
                     <<Call("zpdf_extract_all_reading_order", h, 0, 0)>>)

\* a variant of the TextSpan construction with x0 and x1 exchanged
TextSpan_exchanged(span) ==
    [x0 |-> span.x1, y0 |-> span.y0, x1 |-> span.x0, y1 |-> span.y1,
     text |-> decode(span.text), font_size |-> span.font_size]

TextSpan(span) ==
    [x0 |-> span.x0, y0 |-> span.y0, x1 |-> span.x1, y1 |-> span.y1,
     text |-> decode(span.text), font_size |-> span.font_size]

\* TextSpan.width, TextSpan.height
width(span) == span.x1 - span.x0

height(span) == span.y1 - span.y0

extract_bounds(c, h, pdf, page_num) ==
    IF check_open(c) # "ok" THEN Raise(check_open(c), <<>>)
    ELSE LET chk == page_check(c, h, pdf, page_num)
         IN  IF chk.kind # "ok" THEN chk
             ELSE LET out == zpdf_extract_bounds(h, page_num, pdf)
                      calls == Append(chk.calls, Call("zpdf_extract_bounds", h, page_num, 0))
                  IN  IF out.ptr = NULL /\ out.len = 0 THEN Ret("ok", 0, <<>>, <<>>, <<>>, calls)
                      ELSE IF out.ptr = NULL THEN Raise("ExtractionError", calls)
                      ELSE IF CopyFails(out)
                      THEN Raise("MemoryError", Append(calls, Call("zpdf_free_bounds", out.ptr, 0, out.len)))
                      ELSE Ret("ok", 0, <<>>, [i \in 1 .. out.len |-> TextSpan(out.data[i])], <<>>,
                               Append(calls, Call("zpdf_free_bounds", out.ptr, 0, out.len)))

extract_page_markdown(c, h, pdf, page_num) ==
    IF check_open(c) # "ok" THEN Raise(check_open(c), <<>>)
    ELSE LET chk == page_check(c, h, pdf, page_num)
         IN  IF chk.kind # "ok" THEN chk
             ELSE text_result(zpdf_extract_page_markdown(h, page_num, pdf),
                              Append(chk.calls, Call("zpdf_extract_page_markdown", h, page_num, 0)))

extract_all_markdown(c, h, pdf, order) ==
    IF check_open(c) # "ok" THEN Raise(check_open(c), <<>>)
    ELSE text_result(zpdf_extract_all_markdown(h, pdf, order),
                     <<Call("zpdf_extract_all_markdown", h, 0, 0)>>)

\* __len__
len(c, h, pdf) == page_count(c, h, pdf)

\* One step of the generator of __iter__ at index i of range(limit): the
\* value it yields, the exception of extract_page(i), or StopIteration.
iter_step(c, h, pdf, i, limit) ==
    IF i >= limit THEN Raise("StopIteration", <<>>)
    ELSE extract_page(c, h, pdf, i, FALSE)

\* list(doc): the generator run to its end.  The outcome is the list of the
\* texts yielded, or the first exception raised.
RECURSIVE iter_from(_, _, _, _, _, _, _)
iter_from(c, h, pdf, i, limit, items, calls) ==
    LET step == iter_step(c, h, pdf, i, limit)
    IN  IF step.kind = "StopIteration" THEN Ret("ok", 0, <<>>, items, <<>>, calls)
        ELSE IF step.kind # "ok" THEN Raise(step.kind, calls \o step.calls)
        ELSE iter_from(c, h, pdf, i + 1, limit, Append(items, step.text), calls \o step.calls)

list_doc(c, h, pdf) ==
    LET pc == page_count(c, h, pdf)
    IN  IF pc.kind # "ok" THEN pc
        ELSE iter_from(c, h, pdf, 0, pc.num, <<>>, pc.calls)

\* a variant of close() that closes the handle and leaves the fields as they were
close_keeps_fields(c, h) ==
    IF ~c /\ h # NULL
    THEN [closed |-> c, handle |-> h, calls |-> <<Call("zpdf_close", h, 0, 0)>>]
    ELSE [closed |-> c, handle |-> h, calls |-> <<>>]

\* a variant of close() that sets the flag and keeps the handle
close_leaves_handle(c, h) ==
    IF ~c /\ h # NULL
    THEN [closed |-> TRUE, handle |-> h, calls |-> <<Call("zpdf_close", h, 0, 0)>>]
    ELSE [closed |-> c, handle |-> h, calls |-> <<>>]

\* a variant of close() that tests the closed flag only, not the handle
close_flag_only(c, h) ==
    IF ~c
    THEN [closed |-> TRUE, handle |-> NULL, calls |-> <<Call("zpdf_close", h, 0, 0)>>]
    ELSE [closed |-> c, handle |-> h, calls |-> <<>>]

\* close(): the new fields and the engine calls made
close(c, h) ==
    IF ~c /\ h # NULL
    THEN [closed |-> TRUE, handle |-> NULL, calls |-> <<Call("zpdf_close", h, 0, 0)>>]
    ELSE [closed |-> c, handle |-> h, calls |-> <<>>]

\* __del__
del(c, h) == IF ~c THEN close(c, h) ELSE [closed |-> c, handle |-> h, calls |-> <<>>]

\* __init__: the fields it leaves and what it raises
init(pdf, source) ==
    LET h == zpdf_open(pdf)
        calls == <<Call(IF source = "bytes" THEN "zpdf_open_memory" ELSE "zpdf_open", NULL, 0, 0)>>
    IN  [closed |-> FALSE, handle |-> h,
         kind |-> IF h = NULL THEN "InvalidPdfError" ELSE "ok", calls |-> calls]

(***************************************************************************)
(* The state.                                                              *)
(***************************************************************************)
VARIABLES
    pdf,        \* what the source holds (fixed: the document is read-only)
    obj,        \* the Document object: "none" (not constructed), "live",
                \* "failed" (its __init__ raised), "dead" (finalised)
    handle,     \* Document._handle
    closed,     \* Document._closed
    engLive,    \* the engine's side: the handle is open and not yet closed
    closeLog,   \* the handles zpdf_close was called with, in order
    res,        \* the last call on the object: method, arguments, the closed
                \* flag it found, and its outcome
    calls,      \* the engine calls the last call made, in order
    pin,        \* a result of extract_page the caller keeps
    iters,      \* the generator objects made by iter(doc)
    thr,        \* the threads calling the Document: where each one is in its call
    engaged     \* the last engine call a thread made: function, handle passed,
                \* and whether that handle was open in the engine at the call

vars == <<pdf, oom, thr, engaged, obj, handle, closed, engLive, closeLog, res, calls, pin, iters>>

Outcome(op, n, reading, kwargs, r) ==
    [op |-> op, n |-> n, reading |-> reading, kwargs |-> kwargs, closed |-> closed,
     kind |-> r.kind, num |-> r.num, text |-> r.text, list |-> r.list, info |-> r.info]

Nothing == Ret("ok", 0, <<>>, <<>>, <<>>, <<>>)

NoPin == [op |-> "none", n |-> 0, reading |-> FALSE, kwargs |-> {}, closed |-> FALSE,
          kind |-> "ok", num |-> 0, text |-> <<>>, list |-> <<>>, info |-> <<>>]

NoIter == [st |-> "none", i |-> 0, limit |-> 0, items |-> <<>>, exc |-> "none"]

Threads == 1 .. MaxThreads

\* a thread that is not inside a call on the Document
Idle == [pc |-> "idle", op |-> "none", n |-> 0]

NoCall == [fn |-> "none", ptr |-> NULL, live |-> TRUE]

Sources == {"path", "bytes"}

KwargSets == {{}, {"parallel", "reading_order"}}

\* before the Document is constructed, with the memory conditions of the run
Start(ooms) ==
    /\ pdf \in Docs
    /\ oom \in ooms
    /\ obj = "none"
    /\ handle = NULL
    /\ closed = FALSE
    /\ engLive = FALSE
    /\ closeLog = <<>>
    /\ res = NoPin
    /\ calls = <<>>
    /\ pin = NoPin
    /\ iters = [k \in 1 .. MaxIters |-> NoIter]
    /\ thr = [t \in Threads |-> Idle]
    /\ engaged = NoCall

Init == Start({FALSE})

InitMem == Start(BOOLEAN)

\* the zpdf_close calls among cs, appended to the log (which saturates)
Logged(log, cs) ==
    LET closes == SelectSeq(cs, LAMBDA x : x.fn = "zpdf_close")
        all == log \o [i \in DOMAIN closes |-> closes[i].ptr]
    IN  SubSeq(all, 1, IF Len(all) < MaxCloseLog THEN Len(all) ELSE MaxCloseLog)

HasClose(cs) == \E i \in DOMAIN cs : cs[i].fn = "zpdf_close" /\ cs[i].ptr # NULL

\* a read operation: only the outcome and the engine calls are new
Read(op, n, reading, kwargs, r) ==
    /\ obj = "live"
    /\ res' = Outcome(op, n, reading, kwargs, r)
    /\ calls' = r.calls
    /\ UNCHANGED <<pdf, oom, thr, engaged, obj, handle, closed, engLive, closeLog, pin, iters>>

\* Document(source)
Open(source) ==
    /\ obj = "none"
    /\ LET r == init(pdf, source)
       IN  /\ handle' = r.handle
           /\ closed' = r.closed
           /\ obj' = IF r.kind = "ok" THEN "live" ELSE "failed"
           /\ engLive' = (r.handle # NULL)
           /\ res' = [Outcome("init", 0, FALSE, {}, Nothing) EXCEPT !.kind = r.kind]
           /\ calls' = r.calls
    /\ UNCHANGED <<pdf, oom, thr, engaged, closeLog, pin, iters>>

\* the fields and the engine after close() or __del__ returned r
Closing(op, r) ==
    /\ handle' = r.handle
    /\ closed' = r.closed
    /\ engLive' = (engLive /\ ~HasClose(r.calls))
    /\ closeLog' = Logged(closeLog, r.calls)
    /\ res' = Outcome(op, 0, FALSE, {}, Nothing)
    /\ calls' = r.calls
    /\ UNCHANGED <<pdf, oom, thr, engaged, pin, iters>>

Close ==
    /\ obj = "live"
    /\ Closing("close", close(closed, handle))
    /\ UNCHANGED obj

\* __enter__ returns self
Enter ==
    /\ obj = "live"
    /\ res' = Outcome("enter", 0, FALSE, {}, Nothing)
    /\ calls' = <<>>
    /\ UNCHANGED <<pdf, oom, thr, engaged, obj, handle, closed, engLive, closeLog, pin, iters>>

\* __exit__, at the end of a with block
Exit ==
    /\ obj = "live"
    /\ Closing("exit", close(closed, handle))
    /\ UNCHANGED obj

\* the object is dropped and finalised, also when its __init__ raised
Finalise ==
    /\ obj \in {"live", "failed"}
    /\ Closing("del", del(closed, handle))
    /\ obj' = "dead"

PageCount == Read("page_count", 0, FALSE, {}, page_count(closed, handle, pdf))

LenDoc == Read("len", 0, FALSE, {}, len(closed, handle, pdf))

GetPageInfo(n) == Read("get_page_info", n, FALSE, {}, get_page_info(closed, handle, pdf, n))

ExtractPage(n, reading_order) ==
    Read("extract_page", n, reading_order, {}, extract_page(closed, handle, pdf, n, reading_order))

ExtractAll(order, kwargs) ==
    Read("extract_all", 0, TRUE, kwargs, extract_all(closed, handle, pdf, order, kwargs))

ExtractBounds(n) == Read("extract_bounds", n, FALSE, {}, extract_bounds(closed, handle, pdf, n))

ExtractPageMarkdown(n) ==
    Read("extract_page_markdown", n, FALSE, {}, extract_page_markdown(closed, handle, pdf, n))

ExtractAllMarkdown(order) ==
    Read("extract_all_markdown", 0, FALSE, {}, extract_all_markdown(closed, handle, pdf, order))

\* a variant of list(doc) that closes the Document once it is exhausted
ListDoc_closing ==
    /\ obj = "live"
    /\ res' = Outcome("list", 0, FALSE, {}, list_doc(closed, handle, pdf))
    /\ calls' = Append(list_doc(closed, handle, pdf).calls, Call("zpdf_close", handle, 0, 0))
    /\ handle' = NULL
    /\ closed' = TRUE
    /\ engLive' = FALSE
    /\ closeLog' = Logged(closeLog, <<Call("zpdf_close", handle, 0, 0)>>)
    /\ UNCHANGED <<pdf, oom, thr, engaged, obj, pin, iters>>

ListDoc == Read("list", 0, FALSE, {}, list_doc(closed, handle, pdf))

\* the caller keeps the text extract_page just returned: text = doc.extract_page(0)
Remember ==
    /\ obj = "live"
    /\ res.op = "extract_page"
    /\ pin' = res
    /\ UNCHANGED <<pdf, oom, thr, engaged, obj, handle, closed, engLive, closeLog, res, calls, iters>>

Orders == Perms(PageIndices(pdf))

Next ==
    \/ \E source \in Sources : Open(source)
    \/ Close
    \/ Enter
    \/ Exit
    \/ Finalise
    \/ PageCount
    \/ LenDoc
    \/ \E n \in PageArgs : GetPageInfo(n)
    \/ \E n \in PageArgs, reading_order \in BOOLEAN : ExtractPage(n, reading_order)
    \/ \E order \in Orders, kwargs \in KwargSets : ExtractAll(order, kwargs)
    \/ \E n \in PageArgs : ExtractBounds(n)
    \/ \E n \in PageArgs : ExtractPageMarkdown(n)
    \/ \E order \in Orders : ExtractAllMarkdown(order)
    \/ ListDoc
    \/ Remember

Spec == Init /\ [][Next]_vars

(***************************************************************************)
(* Iteration step by step: __iter__ is a generator, so iter(doc) makes a   *)
(* generator object that has run nothing, and each next() runs it to its   *)
(* next yield.  The cursor lives in the generator, not in the Document.    *)
(***************************************************************************)
\* iter(doc), bound to variable k of the caller (whatever it held is dropped)
IterNew(k) ==
    /\ obj = "live"
    /\ iters' = [iters EXCEPT ![k] = [NoIter EXCEPT !.st = "fresh"]]
    /\ res' = Outcome("iter", k, FALSE, {}, Nothing)
    /\ calls' = <<>>
    /\ UNCHANGED <<pdf, oom, thr, engaged, obj, handle, closed, engLive, closeLog, pin>>

\* the generator after next(): g before, limit the bound of its range, and
\* step what the body did
Advance(g, limit, step) ==
    IF step.kind = "ok"
    THEN [st |-> "running", i |-> g.i + 1, limit |-> limit,
          items |-> Append(g.items, step.text), exc |-> "none"]
    ELSE [st |-> "done", i |-> g.i, limit |-> limit, items |-> g.items, exc |-> step.kind]

\* next(it) on generator k
IterNext(k) ==
    /\ obj = "live"
    /\ iters[k].st # "none"
    /\ LET g == iters[k]
           pc == page_count(closed, handle, pdf)
       IN  IF g.st = "done"
           THEN /\ res' = Outcome("next", k, FALSE, {}, Raise("StopIteration", <<>>))
                /\ calls' = <<>>
                /\ UNCHANGED iters
           ELSE IF g.st = "fresh" /\ pc.kind # "ok"
           THEN /\ res' = Outcome("next", k, FALSE, {}, pc)
                /\ calls' = pc.calls
                /\ iters' = [iters EXCEPT ![k] = Advance(g, 0, pc)]
           ELSE LET limit == IF g.st = "fresh" THEN pc.num ELSE g.limit
                    before == IF g.st = "fresh" THEN pc.calls ELSE <<>>
                    step == iter_step(closed, handle, pdf, g.i, limit)
                IN  /\ res' = Outcome("next", k, FALSE, {}, step)
                    /\ calls' = before \o step.calls
                    /\ iters' = [iters EXCEPT ![k] = Advance(g, limit, step)]
    /\ UNCHANGED <<pdf, oom, thr, engaged, obj, handle, closed, engLive, closeLog, pin>>

NextIter ==
    \/ \E source \in Sources : Open(source)
    \/ Close
    \/ Finalise
    \/ \E k \in 1 .. MaxIters : IterNew(k)
    \/ \E k \in 1 .. MaxIters : IterNext(k)

SpecIter == Init /\ [][NextIter]_vars

\* the same operations when the interpreter may run out of memory
SpecMem == InitMem /\ [][Next]_vars

(***************************************************************************)
(* Several threads calling one Document.  The class takes no lock, so a    *)
(* method is not one step: the interpreter can switch threads between the  *)
(* statements of a method, and a call into the engine releases the         *)
(* interpreter lock.  A step is here one access to the fields the threads  *)
(* share together with the thread's own work up to its next access: the    *)
(* test of _closed, an engine call with its argument self._handle, an      *)
(* assignment to _handle, an assignment to _closed.                        *)
(***************************************************************************)
ThreadOps == {"page_count", "get_page_info", "extract_page", "close"}

\* the handle was open in the engine and zpdf_close has released it
Released(h) == h # NULL /\ ~engLive

\* What the engine makes of the handle it is passed.  Reading through a
\* released handle is undefined: its memory may still hold the document
\* (the call works as before) or may not (the call fails as for no handle);
\* it may also end the process, which is TCrash.
Seen(h) == IF Released(h) THEN {h, NULL} ELSE {h}

\* the engine function thread state th is about to call
EngineFn(th) ==
    IF th.pc = "count_use" THEN "zpdf_page_count"
    ELSE IF th.pc = "close_call" THEN "zpdf_close"
    ELSE IF th.op = "get_page_info" THEN "zpdf_get_page_info"
    ELSE "zpdf_extract_page"

\* thread t calls the engine with self._handle as it is now
Engage(t) == [fn |-> EngineFn(thr[t]), ptr |-> handle, live |-> (handle # NULL /\ engLive)]

\* thread t's call returns or raises r
Return(t, op, n, r) ==
    /\ thr' = [thr EXCEPT ![t] = Idle]
    /\ res' = Outcome(op, n, FALSE, {}, r)

\* thread t goes on to the step pc of its call
Goto(t, op, n, pc) ==
    /\ thr' = [thr EXCEPT ![t] = [pc |-> pc, op |-> op, n |-> n]]
    /\ UNCHANGED res

\* Thread t calls op: the method runs up to and including its first look at
\* the shared fields, which is _check_open() (the test of close(), for
\* close), and the test of page_num < 0 that follows it in extract_page.
TStart(t, op, n) ==
    /\ obj = "live"
    /\ thr[t].pc = "idle"
    /\ IF op = "close"
       THEN IF ~closed /\ handle # NULL THEN Goto(t, op, 0, "close_call")
            ELSE Return(t, op, 0, Nothing)
       ELSE IF check_open(closed) # "ok" THEN Return(t, op, n, Raise(check_open(closed), <<>>))
       ELSE IF op = "page_count" THEN Goto(t, op, 0, "count_use")
       ELSE IF op = "get_page_info" THEN Goto(t, op, n, "use")
       ELSE IF n < 0 THEN Return(t, op, n, Raise("PageNotFoundError", <<>>))
       ELSE Goto(t, op, n, "count_check")
    /\ UNCHANGED <<pdf, oom, engaged, obj, handle, closed, engLive, closeLog, calls, pin, iters>>

\* extract_page reads self.page_count: the _check_open() of page_count
TCountCheck(t) ==
    /\ obj = "live"
    /\ thr[t].pc = "count_check"
    /\ IF check_open(closed) # "ok"
       THEN Return(t, thr[t].op, thr[t].n, Raise(check_open(closed), <<>>))
       ELSE Goto(t, thr[t].op, thr[t].n, "count_use")
    /\ UNCHANGED <<pdf, oom, engaged, obj, handle, closed, engLive, closeLog, calls, pin, iters>>

\* lib.zpdf_page_count(self._handle) and what page_count, and extract_page
\* after it, do with the count
TCountUse(t) ==
    /\ obj = "live"
    /\ thr[t].pc = "count_use"
    /\ \E seen \in Seen(handle) :
          LET pc == page_count(FALSE, seen, pdf)
          IN  IF pc.kind # "ok" \/ thr[t].op = "page_count"
              THEN Return(t, thr[t].op, thr[t].n, pc)
              ELSE IF thr[t].n >= pc.num
              THEN Return(t, thr[t].op, thr[t].n, Raise("PageNotFoundError", pc.calls))
              ELSE Goto(t, thr[t].op, thr[t].n, "use")
    /\ engaged' = Engage(t)
    /\ UNCHANGED <<pdf, oom, obj, handle, closed, engLive, closeLog, calls, pin, iters>>

\* lib.zpdf_get_page_info(self._handle, ...) or lib.zpdf_extract_page(
\* self._handle, ...), and the rest of the method, which is the thread's own
TUse(t) ==
    /\ obj = "live"
    /\ thr[t].pc = "use"
    /\ \E seen \in Seen(handle) :
          Return(t, thr[t].op, thr[t].n,
                 IF thr[t].op = "get_page_info"
                 THEN get_page_info(FALSE, seen, pdf, thr[t].n)
                 ELSE text_result(zpdf_extract_page(seen, thr[t].n, pdf),
                                  <<Call("zpdf_extract_page", handle, thr[t].n, 0)>>))
    /\ engaged' = Engage(t)
    /\ UNCHANGED <<pdf, oom, obj, handle, closed, engLive, closeLog, calls, pin, iters>>

\* close(): lib.zpdf_close(self._handle)
TCloseCall(t) ==
    /\ obj = "live"
    /\ thr[t].pc = "close_call"
    /\ engaged' = Engage(t)
    /\ closeLog' = Logged(closeLog, <<Call("zpdf_close", handle, 0, 0)>>)
    /\ engLive' = (engLive /\ handle = NULL)
    /\ Goto(t, "close", 0, "close_null")
    /\ UNCHANGED <<pdf, oom, obj, handle, closed, calls, pin, iters>>

\* close(): self._handle = ffi.NULL
TCloseNull(t) ==
    /\ obj = "live"
    /\ thr[t].pc = "close_null"
    /\ handle' = NULL
    /\ Goto(t, "close", 0, "close_flag")
    /\ UNCHANGED <<pdf, oom, engaged, obj, closed, engLive, closeLog, calls, pin, iters>>

\* close(): self._closed = True, and close returns
TCloseFlag(t) ==
    /\ obj = "live"
    /\ thr[t].pc = "close_flag"
    /\ closed' = TRUE
    /\ Return(t, "close", 0, Nothing)
    /\ UNCHANGED <<pdf, oom, engaged, obj, handle, engLive, closeLog, calls, pin, iters>>

\* an engine call through a released handle ends the process
TCrash(t) ==
    /\ obj = "live"
    /\ thr[t].pc \in {"count_use", "use", "close_call"}
    /\ Released(handle)
    /\ obj' = "crashed"
    /\ engaged' = Engage(t)
    /\ res' = Outcome(thr[t].op, thr[t].n, FALSE, {}, Raise("crash", <<>>))
    /\ UNCHANGED <<pdf, oom, thr, handle, closed, engLive, closeLog, calls, pin, iters>>

NextThreads ==
    \/ \E source \in Sources : Open(source)
    \/ \E t \in Threads, op \in ThreadOps, n \in PageArgs : TStart(t, op, n)
    \/ \E t \in Threads : TCountCheck(t)
    \/ \E t \in Threads : TCountUse(t)
    \/ \E t \in Threads : TUse(t)
    \/ \E t \in Threads : TCloseCall(t)
    \/ \E t \in Threads : TCloseNull(t)
    \/ \E t \in Threads : TCloseFlag(t)
    \/ \E t \in Threads : TCrash(t)

SpecThreads == Init /\ [][NextThreads]_vars

(***************************************************************************)
(* Properties.                                                             *)
(***************************************************************************)
PublicOps ==
    {"page_count", "len", "get_page_info", "extract_page", "extract_all", "extract_bounds",
     "extract_page_markdown", "extract_all_markdown", "list"}

SinglePageOps == {"extract_page", "extract_bounds", "extract_page_markdown"}

ExtractFns ==
    {"zpdf_extract_page", "zpdf_extract_page_reading_order", "zpdf_extract_bounds",
     "zpdf_extract_page_markdown"}

FreeFns == {"zpdf_free_buffer", "zpdf_free_bounds"}

\* C1: a public operation called on a closed Document (with arguments its
\* signature accepts, in or out of the page range) raises the closed error,
\* ValueError, and makes no call into the engine.
C1_ClosedOperationsFail ==
    (res.op \in PublicOps /\ res.closed /\ res.kwargs = {})
        => (res.kind = "ValueError" /\ calls = <<>>)

C1_Witness ==
    /\ obj = "live" /\ closed
    /\ res.op = "extract_page" /\ res.closed /\ res.n = -1
    /\ res.kind = "ValueError"

\* C2: for a Document that was opened, zpdf_close is called exactly once on
\* its handle over any sequence of close(), __exit__ and __del__: never while
\* the Document is open, once when it is closed or finalised, and a further
\* close() calls nothing and raises nothing.
C2_ClosedExactlyOnce ==
    /\ Len(closeLog) <= 1
    /\ (obj = "live" /\ ~closed) => (closeLog = <<>> /\ engLive)
    /\ ((obj = "live" /\ closed) \/ (obj = "dead" /\ pdf.openable))
          => (closeLog = <<HANDLE>> /\ ~engLive)
    /\ (res.op \in {"close", "exit", "del"}) => res.kind = "ok"
    /\ (res.op \in {"close", "exit", "del"} /\ res.closed) => calls = <<>>

C2_Witness ==
    /\ obj = "live"
    /\ res.op = "close" /\ res.closed
    /\ closeLog = <<HANDLE>>

\* C3: on an open Document whose page count is pc >= 0, extract_page (either
\* mode), extract_bounds and extract_page_markdown with an index n < 0 or
\* n >= pc raise PageNotFoundError without obtaining or freeing a buffer, and
\* no operation calls an engine extraction with an index outside [0, pc).
C3_OutOfRangeRaises ==
    /\ (/\ res.op \in SinglePageOps /\ ~res.closed
        /\ (res.n < 0 \/ (pdf.count >= 0 /\ res.n >= pdf.count)))
          => /\ res.kind = "PageNotFoundError"
             /\ \A i \in DOMAIN calls : calls[i].fn \notin (ExtractFns \cup FreeFns)
    /\ \A i \in DOMAIN calls :
          calls[i].fn \in ExtractFns => calls[i].n \in PageIndices(pdf)

C3_Witness ==
    /\ res.op = "extract_bounds" /\ ~res.closed
    /\ pdf.count > 0 /\ res.n = pdf.count
    /\ res.kind = "PageNotFoundError"

\* C4: on an open Document, get_page_info(n) raises PageNotFoundError for
\* every n outside [0, page_count), negative or too large, and for every n
\* inside returns the width, height and rotation of page n.
C4_PageInfoRange ==
    (res.op = "get_page_info" /\ ~res.closed)
        => IF res.n \in PageIndices(pdf)
           THEN /\ res.kind = "ok"
                /\ res.info = <<pdf.pages[res.n + 1].width, pdf.pages[res.n + 1].height,
                                pdf.pages[res.n + 1].rotation>>
           ELSE res.kind = "PageNotFoundError"

C4_Witness ==
    /\ res.op = "get_page_info" /\ ~res.closed
    /\ pdf.count > 0 /\ res.n = -1
    /\ res.kind = "PageNotFoundError"

\* what the engine returns for the page and rendering of the last call
EngineOutOf(r) ==
    PageOut(HANDLE, r.n, pdf,
            IF r.op = "extract_bounds" THEN "spans"
            ELSE IF r.op = "extract_page_markdown" THEN "markdown"
            ELSE IF r.reading THEN "reading" ELSE "stream")

\* C5: for extract_page (either mode), extract_bounds and
\* extract_page_markdown on a valid index of an open Document, a null result
\* of the engine is always raised as ExtractionError, so the empty result is
\* returned only for a valid zero-length output of the engine.
C5_NullIsExtractionError ==
    (res.op \in SinglePageOps /\ ~res.closed /\ res.n \in PageIndices(pdf))
        => /\ EngineOutOf(res).ptr = NULL => res.kind = "ExtractionError"
           /\ (res.kind = "ok" /\ res.text = <<>> /\ res.list = <<>>)
                 => (EngineOutOf(res).ptr # NULL /\ EngineOutOf(res).len = 0)

\* the per-page outputs in reading order, a failing page counting as empty,
\* in ascending page index with one form feed between consecutive pages
AscendingPages ==
    Join([k \in 1 .. Len(pdf.pages) |->
             IF pdf.pages[k].fail = "none" THEN decode(pdf.pages[k].reading) ELSE <<>>],
         <<FF>>)

\* C6: extract_all called with parallel set returns what it returns with
\* parallel unset: the per-page outputs in ascending page index with one form
\* feed between consecutive pages, whatever the order the workers finish in.
C6_ParallelSameAsSequential ==
    (res.op = "extract_all" /\ ~res.closed /\ "parallel" \in res.kwargs /\ pdf.allFail = "none")
        => (res.kind = "ok" /\ res.text = AscendingPages)

\* C7: in extract_all on an open Document, a page that fails to interpret
\* contributes an empty page: the call raises nothing and returns the other
\* pages' texts and the separators as if the failing page were empty.
C7_FailingPageIsEmpty ==
    (res.op = "extract_all" /\ ~res.closed /\ res.kwargs = {} /\ pdf.allFail = "none")
        => (res.kind = "ok" /\ res.text = AscendingPages)

C7_Witness ==
    /\ res.op = "extract_all" /\ ~res.closed /\ res.kwargs = {}
    /\ pdf.count = 2
    /\ pdf.pages[1].fail = "nullerr" /\ pdf.pages[2].fail = "none"
    /\ res.kind = "ok" /\ res.text = <<FF, 98, 97>>

ReadOps == PublicOps \cup {"enter"}

StreamPage(i) == extract_page(FALSE, HANDLE, pdf, i, FALSE)

\* C9: an iteration of an open Document that has ended has yielded exactly
\* page_count items, item i being extract_page(i) in stream order, in
\* ascending order from page 0, whatever other iterations did.
C9_YieldsEveryPage ==
    \A k \in 1 .. MaxIters :
        (iters[k].st = "done" /\ ~closed /\ pdf.count >= 0)
            => /\ Len(iters[k].items) = pdf.count
               /\ \A j \in 1 .. Len(iters[k].items) : iters[k].items[j] = StreamPage(j - 1).text

\* C10: when the engine returns a null handle for the source (a path or
\* bytes), the constructor raises InvalidPdfError, the object never becomes a
\* usable Document, and zpdf_close is never called for it, neither by the
\* constructor nor by the finaliser; zpdf_close is never called with null.
C10_FailedOpenNeverCloses ==
    /\ (~pdf.openable /\ obj # "none")
          => /\ obj \in {"failed", "dead"}
             /\ handle = NULL
             /\ closeLog = <<>>
             /\ (res.op = "init" => res.kind = "InvalidPdfError")
             /\ \A i \in DOMAIN calls : calls[i].fn # "zpdf_close"
    /\ \A i \in DOMAIN closeLog : closeLog[i] # NULL

C10_Witness ==
    /\ ~pdf.openable
    /\ obj = "dead" /\ res.op = "del"
    /\ closeLog = <<>>

OutputFns ==
    ExtractFns \cup {"zpdf_extract_all_reading_order", "zpdf_extract_all_markdown"}

Ascending == [i \in 1 .. Len(pdf.pages) |-> i - 1]

\* what the engine returned to the call c of the log
EngineResultOf(c) ==
    IF c.fn = "zpdf_extract_page" THEN zpdf_extract_page(c.ptr, c.n, pdf)
    ELSE IF c.fn = "zpdf_extract_page_reading_order"
    THEN zpdf_extract_page_reading_order(c.ptr, c.n, pdf)
    ELSE IF c.fn = "zpdf_extract_page_markdown" THEN zpdf_extract_page_markdown(c.ptr, c.n, pdf)
    ELSE IF c.fn = "zpdf_extract_bounds" THEN zpdf_extract_bounds(c.ptr, c.n, pdf)
    ELSE IF c.fn = "zpdf_extract_all_reading_order"
    THEN zpdf_extract_all_reading_order(c.ptr, pdf, Ascending)
    ELSE zpdf_extract_all_markdown(c.ptr, pdf, Ascending)

FreeFnOf(fn) == IF fn = "zpdf_extract_bounds" THEN "zpdf_free_bounds" ELSE "zpdf_free_buffer"

\* C11: within every operation, each non-null buffer or span array the
\* engine returns is passed to its free function exactly once, with the
\* length or count the engine reported, as the next engine call and before
\* the operation returns or raises (also when the copy raises); a null
\* result is never freed, and nothing else is.
C11_BuffersFreedOnce ==
    \A i \in DOMAIN calls :
        /\ calls[i].fn \in OutputFns =>
              LET out == EngineResultOf(calls[i])
              IN  IF out.ptr # NULL
                  THEN /\ i + 1 \in DOMAIN calls
                       /\ calls[i + 1] = Call(FreeFnOf(calls[i].fn), out.ptr, 0, out.len)
                  ELSE i + 1 \in DOMAIN calls => calls[i + 1].fn \notin FreeFns
        /\ calls[i].fn \in FreeFns =>
              /\ calls[i].ptr # NULL
              /\ i > 1
              /\ calls[i - 1].fn \in OutputFns

C11_Witness ==
    /\ oom
    /\ res.op = "extract_page" /\ res.kind = "MemoryError"
    /\ calls[Len(calls)] = Call("zpdf_free_buffer", BUF, 0, 2)

Consulted == \E i \in DOMAIN calls : calls[i].fn = "zpdf_page_count"

\* C12: on an open Document, page_count (and len) returns the engine's count
\* when it is >= 0 and raises InvalidPdfError when it is negative, never
\* returning a negative value; extract_page, extract_bounds,
\* extract_page_markdown and iteration, when they consult a negative count,
\* raise that InvalidPdfError and call no engine extraction.
C12_CountNeverNegative ==
    /\ (res.op \in {"page_count", "len"} /\ ~res.closed)
          => \/ res.kind = "ok" /\ res.num >= 0 /\ res.num = pdf.count
             \/ res.kind = "InvalidPdfError" /\ pdf.count < 0
    /\ (res.op \in SinglePageOps \cup {"list"} /\ ~res.closed /\ pdf.count < 0 /\ Consulted)
          => /\ res.kind = "InvalidPdfError"
             /\ \A i \in DOMAIN calls : calls[i].fn \notin OutputFns

C12_Witness ==
    /\ pdf.count < 0
    /\ res.op = "extract_bounds" /\ ~res.closed /\ res.n = 0
    /\ res.kind = "InvalidPdfError"

\* C13: every span extract_bounds returns for a valid page has x0 <= x1 and
\* y0 <= y1, so a width and a height that are not negative, and a text that
\* is not empty after trimming white space.
C13_SpansConsistent ==
    (res.op = "extract_bounds" /\ res.kind = "ok")
        => \A i \in DOMAIN res.list :
              /\ res.list[i].x0 <= res.list[i].x1
              /\ res.list[i].y0 <= res.list[i].y1
              /\ width(res.list[i]) >= 0
              /\ height(res.list[i]) >= 0
              /\ NonBlank(res.list[i].text)

C13_Witness ==
    /\ res.op = "extract_bounds" /\ res.kind = "ok" /\ res.n = 1
    /\ Len(res.list) = 1
    /\ res.list[1].x0 = 0 /\ res.list[1].x1 = 2
    /\ res.list[1].text = <<97, 98>>

\* C14: whatever the interleaving of one thread's close() with another
\* thread's call, every engine call is passed a handle that is open in the
\* engine at that moment, and zpdf_close is called at most once.
C14_CheckAndUseAtomic ==
    /\ engaged.live
    /\ Len(closeLog) <= 1

====
